---- MODULE Spec2Model ----
(***************************************************************************)
(* Model of the SQS producer / cipher worker pair.                         *)
(*   src/worker_sqs.py    SQSCipherWorker   (consumer loop)                *)
(*   src/producer_sqs.py  SQSMessageProducer (provisioning, send, batch)   *)
(* The queue service is the external collaborator: it is modelled by the   *)
(* answers it can give to each call of the two classes.                    *)
(***************************************************************************)
EXTENDS Integers, Sequences, FiniteSets, TLC

\* ---------------------------------------------------------------- bounds
MaxMsgs == 2        \* messages ever put on the queue in one behaviour
MaxReceives == 3    \* receive calls one worker issues in one behaviour
MaxLimit == 2       \* largest max_messages cutoff passed to start()
MaxInits == 3       \* producer constructions in one behaviour
MaxBatch == 11      \* longest message list passed to send_batch
MaxLen == 2         \* longest text given to caesar_cipher
MaxShift == 3       \* largest shift below one turn of the alphabet
MaxSends == 3       \* send_message calls in one behaviour

\* max_messages=None of start(): no cutoff
NoLimit == -1

\* shift=3, the default of SQSCipherWorker.__init__
DefaultShift == 3

VARIABLES
    \* --- the queue service
    queueExists,      \* the logical queue name resolves to a queue
    msgs,             \* sequence of [body, st, handle]: the messages of the queue
    \* --- one SQSCipherWorker
    pc,               \* position of the worker
    queue_url,        \* self.queue_url
    continuous,       \* start(continuous=...)
    max_messages,     \* start(max_messages=...)
    processed_count,  \* self.processed_count
    cur,              \* message / receipt_handle of the consume_message in progress
    result,           \* value consume_message returned to start()
    stopReason,       \* why the loop of start() was left
    \* --- observations of the calls the worker issued (history)
    receiveCalls,     \* number of receive_message calls issued
    deleteCalls,      \* receipt token -> number of delete_message calls issued with it
    okTokens,         \* receipt tokens whose delete_message call returned
    workerCreates,    \* create_queue calls issued by the worker
    recvAtCount,      \* processed_count when the last receive call was issued
    transformed,      \* receipt tokens whose payload went through process_message
    last,             \* how the last consume_message ended
    \* --- SQSMessageProducer instances: construction
    ppc,              \* producer -> position in __init__ / _get_or_create_queue
    purl,             \* producer -> self.queue_url
    pobs,             \* producer -> lookup answer and create calls of its resolve
    createCalls,      \* create_queue calls issued by producers
    resolves,         \* the completed resolves, in the order they ended
    \* --- SQSMessageProducer.send_batch
    bpc,              \* position of the send_batch call
    batchInput,       \* number of messages passed to send_batch
    batchRequests,    \* entry counts of the send_message_batch requests issued
    batchReturn,      \* the value send_batch returned
    \* --- SQSCipherWorker.caesar_cipher applied to a text
    cpc,              \* input chosen / encrypted / decoded
    ctext,            \* the text, a sequence of code points
    cshift,           \* self.shift
    cout,             \* caesar_cipher(text) of a worker with shift cshift
    cback,            \* caesar_cipher(cout) of a worker with shift -cshift
    \* --- SQSMessageProducer.send_message
    sendLog,          \* the send_message calls made: argument and return value
    payloads          \* the message bodies the service stored, in order

svcVars == << queueExists, msgs >>
workerVars == << pc, queue_url, continuous, max_messages, processed_count, cur,
                 result, stopReason, receiveCalls, deleteCalls, okTokens,
                 workerCreates, recvAtCount, transformed, last >>
provVars == << ppc, purl, pobs, createCalls, resolves >>
batchVars == << bpc, batchInput, batchRequests, batchReturn >>
cipherVars == << cpc, ctext, cshift, cout, cback >>
sendVars == << sendLog, payloads >>

vars == << svcVars, workerVars, provVars, batchVars, cipherVars, sendVars >>

\* ------------------------------------------------------------- data model
\* Body kinds a queue message can carry:
\*   envelope   JSON object {"message": str, ...} (what the producer sends)
\*   malformed  not JSON: json.loads raises JSONDecodeError
\*   nonobject  valid JSON that is no object: payload.get raises AttributeError
BodyKinds == {"envelope", "malformed", "nonobject"}

QueueUrl == "url"
NoUrl == ""
NoCur == [id |-> 0, token |-> 0]

Tokens == 1..MaxReceives

\* the answers get_queue_url can give
LookupResponses(exists) ==
    (IF exists THEN {"found"} ELSE {"NonExistentQueue"})
        \cup {"AccessDenied", "ServiceUnavailable"}

\* the cutoff test with > in place of >=
LimitReachedLate(m, count) == m # NoLimit /\ m # 0 /\ count > m

\* `if max_messages and self.processed_count >= max_messages`
LimitReached(m, count) == m # NoLimit /\ m # 0 /\ count >= m

Visible == {i \in 1..Len(msgs) : msgs[i].st = "visible"}
Leased == {i \in 1..Len(msgs) : msgs[i].st = "leased"}

\* the service's effect of delete_message(ReceiptHandle=token): the message
\* whose latest receipt handle is the token leaves the queue
ServiceDelete(q, token) ==
    [i \in 1..Len(q) |->
        IF q[i].handle = token /\ q[i].st # "deleted"
        THEN [q[i] EXCEPT !.st = "deleted"]
        ELSE q[i]]

\* ---------------------------------------------------------- initial state
Producers == {"p1", "p2"}

SvcInit ==
    /\ queueExists \in BOOLEAN
    /\ msgs = << >>

WorkerVarsInit ==
    /\ pc = "new"
    /\ queue_url = NoUrl
    /\ continuous = TRUE
    /\ max_messages = NoLimit
    /\ processed_count = 0
    /\ cur = NoCur
    /\ result = "None"
    /\ stopReason = "none"
    /\ receiveCalls = 0
    /\ deleteCalls = [t \in Tokens |-> 0]
    /\ okTokens = {}
    /\ workerCreates = 0
    /\ recvAtCount = 0
    /\ transformed = {}
    /\ last = [outcome |-> "none", token |-> 0, id |-> 0]

NoObs == [lookup |-> "none", creates |-> 0, before |-> FALSE]

ProvVarsInit ==
    /\ ppc = [p \in Producers |-> "new"]
    /\ purl = [p \in Producers |-> NoUrl]
    /\ pobs = [p \in Producers |-> NoObs]
    /\ createCalls = 0
    /\ resolves = << >>

BatchVarsInit ==
    /\ bpc = "idle"
    /\ batchInput = 0
    /\ batchRequests = << >>
    /\ batchReturn = "none"

CipherVarsInit ==
    /\ cpc = "unused"
    /\ ctext = << >>
    /\ cshift = DefaultShift
    /\ cout = << >>
    /\ cback = << >>

SendVarsInit ==
    /\ sendLog = << >>
    /\ payloads = << >>

\* ------------------------------------------------------- the worker (Spec)
\* what start() does with the value consume_message returned (lines 179-187):
\* a payload goes back to the head of the loop; None leaves the loop in
\* single-run mode and goes back to the head of the loop in continuous mode
AfterConsume(res, outcome) ==
    /\ result' = res
    /\ last' = [outcome |-> outcome, token |-> cur.token, id |-> cur.id]
    /\ cur' = NoCur
    /\ IF res = "None" /\ ~continuous
       THEN pc' = "stopped" /\ stopReason' = "noresult"
       ELSE pc' = "idle" /\ UNCHANGED stopReason

\* a worker that falls back to create_queue when the queue is absent, as the
\* producer does
WorkerInitCreating ==
    /\ pc = "new"
    /\ \E r \in LookupResponses(queueExists) :
         \/ /\ r = "found"
            /\ pc' = "ready" /\ queue_url' = QueueUrl
            /\ UNCHANGED << queueExists, workerCreates >>
         \/ /\ r = "NonExistentQueue"
            /\ workerCreates' = workerCreates + 1
            /\ queueExists' = TRUE
            /\ pc' = "ready" /\ queue_url' = QueueUrl
         \/ /\ r \notin {"found", "NonExistentQueue"}
            /\ pc' = "init_failed" /\ queue_url' = NoUrl
            /\ UNCHANGED << queueExists, workerCreates >>
    /\ UNCHANGED << continuous, max_messages, processed_count, cur, result,
                    stopReason, receiveCalls, deleteCalls, okTokens,
                    recvAtCount, transformed, last >>
    /\ UNCHANGED << msgs, provVars, batchVars, cipherVars, sendVars >>

\* SQSCipherWorker.__init__ with _get_queue_url: a lookup, never a create; any
\* ClientError is re-raised and the worker is not constructed
WorkerInit ==
    /\ pc = "new"
    /\ \E r \in LookupResponses(queueExists) :
         IF r = "found"
         THEN pc' = "ready" /\ queue_url' = QueueUrl
         ELSE pc' = "init_failed" /\ queue_url' = NoUrl
    /\ UNCHANGED << continuous, max_messages, processed_count, cur, result,
                    stopReason, receiveCalls, deleteCalls, okTokens,
                    workerCreates, recvAtCount, transformed, last >>
    /\ UNCHANGED << svcVars, provVars, batchVars, cipherVars, sendVars >>

\* start(continuous, max_messages) up to the loop
Start ==
    /\ pc = "ready"
    /\ \E c \in BOOLEAN, m \in {NoLimit} \cup (0..MaxLimit) :
         continuous' = c /\ max_messages' = m
    /\ pc' = "idle"
    /\ UNCHANGED << queue_url, processed_count, cur, result, stopReason,
                    receiveCalls, deleteCalls, okTokens, workerCreates,
                    recvAtCount, transformed, last >>
    /\ UNCHANGED << svcVars, provVars, batchVars, cipherVars, sendVars >>

\* head of the loop (lines 171-177): the cutoff test, then consume_message
\* issues the receive call
LoopHead ==
    /\ pc = "idle"
    /\ IF LimitReached(max_messages, processed_count)
       THEN /\ pc' = "stopped"
            /\ stopReason' = "limit"
            /\ UNCHANGED << receiveCalls, recvAtCount >>
       ELSE /\ receiveCalls < MaxReceives
            /\ pc' = "receiving"
            /\ receiveCalls' = receiveCalls + 1
            /\ recvAtCount' = processed_count
            /\ UNCHANGED stopReason
    /\ UNCHANGED << queue_url, continuous, max_messages, processed_count, cur,
                    result, deleteCalls, okTokens, workerCreates, transformed,
                    last >>
    /\ UNCHANGED << svcVars, provVars, batchVars, cipherVars, sendVars >>

\* receive_message returns no Messages: consume_message returns None
ReceiveEmpty ==
    /\ pc = "receiving"
    /\ AfterConsume("None", "empty")
    /\ UNCHANGED << queue_url, continuous, max_messages, processed_count,
                    receiveCalls, deleteCalls, okTokens, workerCreates,
                    recvAtCount, transformed >>
    /\ UNCHANGED << svcVars, provVars, batchVars, cipherVars, sendVars >>

\* receive_message raises ClientError: caught at line 125, None returned
ReceiveError ==
    /\ pc = "receiving"
    /\ AfterConsume("None", "recv_error")
    /\ UNCHANGED << queue_url, continuous, max_messages, processed_count,
                    receiveCalls, deleteCalls, okTokens, workerCreates,
                    recvAtCount, transformed >>
    /\ UNCHANGED << svcVars, provVars, batchVars, cipherVars, sendVars >>

\* a receive that asks for several messages (MaxNumberOfMessages above 1):
\* every visible message is leased by the call, one is processed
ReceiveMsgMany ==
    /\ pc = "receiving"
    /\ \E i \in Visible :
         /\ msgs' = [j \in 1..Len(msgs) |->
                        IF j \in Visible
                        THEN [msgs[j] EXCEPT !.st = "leased", !.handle = receiveCalls]
                        ELSE msgs[j]]
         /\ cur' = [id |-> i, token |-> receiveCalls]
    /\ pc' = "processing"
    /\ UNCHANGED << queue_url, continuous, max_messages, processed_count,
                    result, stopReason, receiveCalls, deleteCalls, okTokens,
                    workerCreates, recvAtCount, transformed, last >>
    /\ UNCHANGED << queueExists, provVars, batchVars, cipherVars, sendVars >>

\* a receive that acknowledges the message before it is processed
ReceiveMsgAckFirst ==
    /\ pc = "receiving"
    /\ \E i \in Visible :
         /\ msgs' = [msgs EXCEPT ![i].st = "deleted", ![i].handle = receiveCalls]
         /\ cur' = [id |-> i, token |-> receiveCalls]
    /\ pc' = "processing"
    /\ UNCHANGED << queue_url, continuous, max_messages, processed_count,
                    result, stopReason, receiveCalls, deleteCalls, okTokens,
                    workerCreates, recvAtCount, transformed, last >>
    /\ UNCHANGED << queueExists, provVars, batchVars, cipherVars, sendVars >>

\* receive_message returns one message: the service leases it under a fresh
\* receipt handle (the number of the receive call stands for the handle)
ReceiveMsg ==
    /\ pc = "receiving"
    /\ \E i \in Visible :
         /\ msgs' = [msgs EXCEPT ![i].st = "leased", ![i].handle = receiveCalls]
         /\ cur' = [id |-> i, token |-> receiveCalls]
    /\ pc' = "processing"
    /\ UNCHANGED << queue_url, continuous, max_messages, processed_count,
                    result, stopReason, receiveCalls, deleteCalls, okTokens,
                    workerCreates, recvAtCount, transformed, last >>
    /\ UNCHANGED << queueExists, provVars, batchVars, cipherVars, sendVars >>

\* json.loads and process_message (lines 111-114), then the delete call is
\* issued:
\*   envelope   parsed and transformed; delete_message of line 117 issued
\*   malformed  JSONDecodeError; delete_message of line 132 issued
\*   nonobject  AttributeError leaves consume_message and start(); the
\*              finally clause runs _shutdown
Process ==
    /\ pc = "processing"
    /\ LET body == msgs[cur.id].body IN
         \/ /\ body = "envelope"
            /\ transformed' = transformed \cup {cur.token}
            /\ deleteCalls' = [deleteCalls EXCEPT ![cur.token] = @ + 1]
            /\ pc' = "acknowledging"
            /\ UNCHANGED << stopReason, last, cur >>
         \/ /\ body = "malformed"
            /\ deleteCalls' = [deleteCalls EXCEPT ![cur.token] = @ + 1]
            /\ pc' = "poison_ack"
            /\ UNCHANGED << stopReason, last, cur, transformed >>
         \/ /\ body = "nonobject"
            /\ pc' = "stopped"
            /\ stopReason' = "error"
            /\ last' = [outcome |-> "crash", token |-> cur.token, id |-> cur.id]
            /\ cur' = NoCur
            /\ UNCHANGED << deleteCalls, transformed >>
    /\ UNCHANGED << queue_url, continuous, max_messages, processed_count,
                    result, receiveCalls, okTokens, workerCreates, recvAtCount >>
    /\ UNCHANGED << svcVars, provVars, batchVars, cipherVars, sendVars >>

\* delete_message of line 117 returns: processed_count += 1, payload returned
DeleteOk ==
    /\ pc = "acknowledging"
    /\ msgs' = ServiceDelete(msgs, cur.token)
    /\ okTokens' = okTokens \cup {cur.token}
    /\ processed_count' = processed_count + 1
    /\ AfterConsume("payload", "ok")
    /\ UNCHANGED << queue_url, continuous, max_messages, receiveCalls,
                    deleteCalls, workerCreates, recvAtCount, transformed >>
    /\ UNCHANGED << queueExists, provVars, batchVars, cipherVars, sendVars >>

\* a delete failure that still counts the message as processed
DeleteFailCounting ==
    /\ pc = "acknowledging"
    /\ processed_count' = processed_count + 1
    /\ AfterConsume("None", "delete_failed")
    /\ UNCHANGED << queue_url, continuous, max_messages, receiveCalls,
                    deleteCalls, okTokens, workerCreates, recvAtCount,
                    transformed >>
    /\ UNCHANGED << svcVars, provVars, batchVars, cipherVars, sendVars >>

\* delete_message of line 117 raises ClientError: caught at line 125, None
\* returned, no second delete call
DeleteFail ==
    /\ pc = "acknowledging"
    /\ AfterConsume("None", "delete_failed")
    /\ UNCHANGED << queue_url, continuous, max_messages, processed_count,
                    receiveCalls, deleteCalls, okTokens, workerCreates,
                    recvAtCount, transformed >>
    /\ UNCHANGED << svcVars, provVars, batchVars, cipherVars, sendVars >>

\* a poison branch that issues the delete again when it failed
PoisonDeleteRetry ==
    /\ pc = "poison_ack"
    /\ \/ /\ msgs' = ServiceDelete(msgs, cur.token)
          /\ okTokens' = okTokens \cup {cur.token}
          /\ AfterConsume("None", "poison_deleted")
          /\ UNCHANGED deleteCalls
       \/ /\ deleteCalls[cur.token] < 2
          /\ deleteCalls' = [deleteCalls EXCEPT ![cur.token] = @ + 1]
          /\ UNCHANGED << msgs, okTokens, pc, cur, result, last, stopReason >>
    /\ UNCHANGED << queue_url, continuous, max_messages, processed_count,
                    receiveCalls, workerCreates, recvAtCount, transformed >>
    /\ UNCHANGED << queueExists, provVars, batchVars, cipherVars, sendVars >>

\* a poison branch that counts the deleted message as processed
PoisonDeleteCounting ==
    /\ pc = "poison_ack"
    /\ \/ /\ msgs' = ServiceDelete(msgs, cur.token)
          /\ okTokens' = okTokens \cup {cur.token}
          /\ processed_count' = processed_count + 1
          /\ AfterConsume("None", "poison_deleted")
       \/ /\ UNCHANGED << msgs, okTokens, processed_count >>
          /\ AfterConsume("None", "poison_kept")
    /\ UNCHANGED << queue_url, continuous, max_messages, receiveCalls,
                    deleteCalls, workerCreates, recvAtCount, transformed >>
    /\ UNCHANGED << queueExists, provVars, batchVars, cipherVars, sendVars >>

\* delete_message of line 132 (poison branch) returns, or raises and is
\* swallowed by `except: pass`: None is returned either way
PoisonDelete ==
    /\ pc = "poison_ack"
    /\ \/ /\ msgs' = ServiceDelete(msgs, cur.token)
          /\ okTokens' = okTokens \cup {cur.token}
          /\ AfterConsume("None", "poison_deleted")
       \/ /\ UNCHANGED << msgs, okTokens >>
          /\ AfterConsume("None", "poison_kept")
    /\ UNCHANGED << queue_url, continuous, max_messages, processed_count,
                    receiveCalls, deleteCalls, workerCreates, recvAtCount,
                    transformed >>
    /\ UNCHANGED << queueExists, provVars, batchVars, cipherVars, sendVars >>

\* KeyboardInterrupt inside the try of start() (lines 170-194): the loop is
\* left and _shutdown runs.  A call in flight may or may not have reached the
\* service: an interrupted receive may have leased a message whose handle is
\* never delivered, an interrupted delete may have removed the message.
Cancel ==
    /\ pc \in {"idle", "receiving", "processing", "acknowledging"}
    /\ \/ UNCHANGED msgs
       \/ /\ pc = "receiving"
          /\ \E i \in Visible :
               msgs' = [msgs EXCEPT ![i].st = "leased", ![i].handle = 0]
       \/ /\ pc = "acknowledging"
          /\ msgs' = ServiceDelete(msgs, cur.token)
    /\ pc' = "stopped"
    /\ stopReason' = "cancel"
    /\ last' = IF pc = "idle" THEN last
               ELSE [outcome |-> "cancelled", token |-> cur.token, id |-> cur.id]
    /\ cur' = NoCur
    /\ UNCHANGED << queue_url, continuous, max_messages, processed_count,
                    result, receiveCalls, deleteCalls, okTokens, workerCreates,
                    recvAtCount, transformed >>
    /\ UNCHANGED << queueExists, provVars, batchVars, cipherVars, sendVars >>

\* KeyboardInterrupt during the delete of the poison branch: the bare
\* `except: pass` of lines 136-137 swallows it and consume_message returns None
CancelInPoisonDelete ==
    /\ pc = "poison_ack"
    /\ \/ UNCHANGED msgs
       \/ msgs' = ServiceDelete(msgs, cur.token)
    /\ AfterConsume("None", "cancel_swallowed")
    /\ UNCHANGED << queue_url, continuous, max_messages, processed_count,
                    receiveCalls, deleteCalls, okTokens, workerCreates,
                    recvAtCount, transformed >>
    /\ UNCHANGED << queueExists, provVars, batchVars, cipherVars, sendVars >>

\* ------------------------------------------------ the queue's other clients
\* a client puts a message on the queue: the producer's send_message puts an
\* envelope (lines 71-90); any other client of the queue may put any body
Enqueue ==
    /\ queueExists
    /\ Len(msgs) < MaxMsgs
    /\ \E b \in BodyKinds :
         msgs' = Append(msgs, [body |-> b, st |-> "visible", handle |-> 0])
    /\ UNCHANGED << queueExists, workerVars, provVars, batchVars, cipherVars, sendVars >>

\* the visibility timeout of a leased message expires: it is receivable again
LeaseExpire ==
    /\ \E i \in Leased : msgs' = [msgs EXCEPT ![i].st = "visible"]
    /\ UNCHANGED << queueExists, workerVars, provVars, batchVars, cipherVars, sendVars >>

Init ==
    /\ SvcInit /\ WorkerVarsInit /\ ProvVarsInit /\ BatchVarsInit
    /\ CipherVarsInit /\ SendVarsInit

Next ==
    \/ WorkerInit
    \/ Start
    \/ LoopHead
    \/ ReceiveEmpty
    \/ ReceiveError
    \/ ReceiveMsg
    \/ Process
    \/ DeleteOk
    \/ DeleteFail
    \/ PoisonDelete
    \/ Cancel
    \/ CancelInPoisonDelete
    \/ Enqueue
    \/ LeaseExpire

Spec == Init /\ [][Next]_vars

\* ------------------------------- producer construction (SpecProvSeq)
\* a resolve that has ended, as the caller and the service saw it
ResolveRecord(p, url, creates, exists) ==
    [url |-> url, lookup |-> pobs[p].lookup, creates |-> creates,
     before |-> pobs[p].before, after |-> exists]

\* resolves begun so far: the ended ones and those waiting to create
Begun == Len(resolves) + Cardinality({q \in Producers : ppc[q] = "creating"})

\* a lookup that takes every ClientError for "queue does not exist"
ProducerLookupAnyError(p) ==
    /\ ppc[p] = "new"
    /\ Begun < MaxInits
    /\ \E r \in LookupResponses(queueExists) :
         LET obs == [lookup |-> r, creates |-> 0, before |-> queueExists] IN
         /\ pobs' = [pobs EXCEPT ![p] = obs]
         /\ IF r = "found"
            THEN /\ ppc' = [ppc EXCEPT ![p] = "ready"]
                 /\ purl' = [purl EXCEPT ![p] = QueueUrl]
                 /\ resolves' = Append(resolves,
                        [url |-> QueueUrl, lookup |-> r, creates |-> 0,
                         before |-> queueExists, after |-> queueExists])
            ELSE /\ ppc' = [ppc EXCEPT ![p] = "creating"]
                 /\ UNCHANGED << purl, resolves >>
    /\ UNCHANGED << createCalls, svcVars, workerVars, batchVars, cipherVars, sendVars >>

\* a resolve that calls create_queue without looking the queue up
ProducerLookupSkipped(p) ==
    /\ ppc[p] = "new"
    /\ Begun < MaxInits
    /\ pobs' = [pobs EXCEPT ![p] =
                    [lookup |-> "NonExistentQueue", creates |-> 0,
                     before |-> queueExists]]
    /\ ppc' = [ppc EXCEPT ![p] = "creating"]
    /\ UNCHANGED << purl, resolves, createCalls, svcVars, workerVars, batchVars, cipherVars, sendVars >>

\* SQSMessageProducer.__init__ and the try of _get_or_create_queue (lines
\* 35-43): get_queue_url returns the url, or raises ClientError; the handler
\* goes on to create_queue for the code NonExistentQueue and re-raises any
\* other error
ProducerLookup(p) ==
    /\ ppc[p] = "new"
    /\ Begun < MaxInits
    /\ \E r \in LookupResponses(queueExists) :
         LET obs == [lookup |-> r, creates |-> 0, before |-> queueExists] IN
         /\ pobs' = [pobs EXCEPT ![p] = obs]
         /\ IF r = "found"
            THEN /\ ppc' = [ppc EXCEPT ![p] = "ready"]
                 /\ purl' = [purl EXCEPT ![p] = QueueUrl]
                 /\ resolves' = Append(resolves,
                        [url |-> QueueUrl, lookup |-> r, creates |-> 0,
                         before |-> queueExists, after |-> queueExists])
            ELSE IF r = "NonExistentQueue"
            THEN /\ ppc' = [ppc EXCEPT ![p] = "creating"]
                 /\ UNCHANGED << purl, resolves >>
            ELSE /\ ppc' = [ppc EXCEPT ![p] = "failed"]
                 /\ resolves' = Append(resolves,
                        [url |-> NoUrl, lookup |-> r, creates |-> 0,
                         before |-> queueExists, after |-> queueExists])
                 /\ UNCHANGED purl
    /\ UNCHANGED << createCalls, svcVars, workerVars, batchVars, cipherVars, sendVars >>

\* the create_queue call of lines 46-56: the service creates the queue (or
\* answers with the queue of that name that exists by now) and the url is
\* returned, or the call raises ClientError, which leaves the handler
ProducerCreate(p) ==
    /\ ppc[p] = "creating"
    /\ createCalls' = createCalls + 1
    /\ pobs' = [pobs EXCEPT ![p].creates = @ + 1]
    /\ \/ /\ queueExists' = TRUE
          /\ ppc' = [ppc EXCEPT ![p] = "ready"]
          /\ purl' = [purl EXCEPT ![p] = QueueUrl]
          /\ resolves' = Append(resolves,
                 ResolveRecord(p, QueueUrl, pobs[p].creates + 1, TRUE))
       \/ /\ UNCHANGED << queueExists, purl >>
          /\ ppc' = [ppc EXCEPT ![p] = "failed"]
          /\ resolves' = Append(resolves,
                 ResolveRecord(p, NoUrl, pobs[p].creates + 1, queueExists))
    /\ UNCHANGED << msgs, workerVars, batchVars, cipherVars, sendVars >>

\* the process constructs another SQSMessageProducer (main, line 157)
ProducerAgain(p) ==
    /\ ppc[p] \in {"ready", "failed"}
    /\ Begun < MaxInits
    /\ ppc' = [ppc EXCEPT ![p] = "new"]
    /\ purl' = [purl EXCEPT ![p] = NoUrl]
    /\ pobs' = [pobs EXCEPT ![p] = NoObs]
    /\ UNCHANGED << createCalls, resolves, svcVars, workerVars, batchVars, cipherVars, sendVars >>

\* consecutive initialisations: a resolve begins when no other is under way
NoneCreating == \A q \in Producers : ppc[q] # "creating"

NextProvSeq ==
    \E p \in Producers :
        \/ NoneCreating /\ ProducerLookup(p)
        \/ ProducerCreate(p)
        \/ ProducerAgain(p)

SpecProvSeq == Init /\ [][NextProvSeq]_vars

\* ------------------------------- concurrent construction (SpecProvConc)
\* two producers initialise with no coordination: the lookup and the create
\* of one may fall between the lookup and the create of the other
NextProvConc ==
    \E p \in Producers :
        \/ ProducerLookup(p)
        \/ ProducerCreate(p)
        \/ ProducerAgain(p)

SpecProvConc == Init /\ [][NextProvConc]_vars

\* ----------------------------------------------- send_message (SpecSend)
Messages == {"", "Hola"}

\* the payload of lines 71-75 as json.dumps writes it and json.loads reads it
\* back; the timestamp is the number of the call
Envelope(m, n) == [message |-> m, status |-> "pending", timestamp |-> n]

\* a send_message whose `return True` follows the try statement
send_message_always_true(p) ==
    /\ ppc[p] = "ready"
    /\ Len(sendLog) < MaxSends
    /\ Len(msgs) < MaxMsgs
    /\ \E m \in Messages :
         /\ sendLog' = Append(sendLog, [p |-> p, message |-> m, ret |-> TRUE])
         /\ \/ /\ msgs' = Append(msgs, [body |-> "envelope", st |-> "visible",
                                        handle |-> 0])
               /\ payloads' = Append(payloads, Envelope(m, Len(sendLog) + 1))
            \/ UNCHANGED << msgs, payloads >>
    /\ UNCHANGED << queueExists, workerVars, provVars, batchVars, cipherVars >>

\* SQSMessageProducer.send_message (lines 70-99): the service stores the body
\* and answers with a MessageId, True is returned; or the call raises
\* ClientError, nothing is stored, False is returned
send_message(p) ==
    /\ ppc[p] = "ready"
    /\ Len(sendLog) < MaxSends
    /\ Len(msgs) < MaxMsgs
    /\ \E m \in Messages :
         \/ /\ msgs' = Append(msgs, [body |-> "envelope", st |-> "visible",
                                     handle |-> 0])
            /\ payloads' = Append(payloads, Envelope(m, Len(sendLog) + 1))
            /\ sendLog' = Append(sendLog, [p |-> p, message |-> m, ret |-> TRUE])
         \/ /\ UNCHANGED << msgs, payloads >>
            /\ sendLog' = Append(sendLog, [p |-> p, message |-> m, ret |-> FALSE])
    /\ UNCHANGED << queueExists, workerVars, provVars, batchVars, cipherVars >>

NextSend ==
    \E p \in Producers :
        \/ NoneCreating /\ ProducerLookup(p)
        \/ ProducerCreate(p)
        \/ send_message(p)

SpecSend == Init /\ [][NextSend]_vars

\* ------------------------------------------------- send_batch (SpecBatch)
\* SQS accepts at most this many entries in one send_message_batch request
ServiceBatchLimit == 10

NoReturn == [raised |-> FALSE, Successful |-> {}, Failed |-> {}]

\* send_batch up to the send_message_batch call (lines 111-127): one entry
\* per input message, Id = str(idx), all entries in one request
SendBatch ==
    /\ bpc \in {"idle", "done"}
    /\ \E n \in 0..MaxBatch :
         /\ batchInput' = n
         /\ batchRequests' = << n >>
    /\ batchReturn' = NoReturn
    /\ bpc' = "requested"
    /\ UNCHANGED << svcVars, workerVars, provVars, cipherVars, sendVars >>

\* the answer of send_message_batch and the return of send_batch (lines
\* 129-137): the response with its Successful and Failed entries is returned
\* as it is; a ClientError (always possible, certain for an empty request or
\* one above the service's limit) is caught and {} is returned
BatchRespond ==
    /\ bpc = "requested"
    /\ LET n == batchRequests[1]
           ids == 0..(n - 1) IN
         \/ /\ n >= 1 /\ n <= ServiceBatchLimit
            /\ \E S \in SUBSET ids :
                 batchReturn' = [raised |-> FALSE, Successful |-> S,
                                 Failed |-> ids \ S]
         \/ batchReturn' = [raised |-> TRUE, Successful |-> {}, Failed |-> {}]
    /\ bpc' = "done"
    /\ UNCHANGED << batchInput, batchRequests, svcVars, workerVars, provVars, cipherVars, sendVars >>

NextBatch == SendBatch \/ BatchRespond

SpecBatch == Init /\ [][NextBatch]_vars

\* ------------------------------------------- caesar_cipher (SpecCipher)
\* Characters are code points.  The texts are built from
\*   ' ' 32, '1' 49, 'A' 65, 'Z' 90, 'a' 97, 'z' 122, 'E acute' 201, 'e acute' 233
Chars == {32, 49, 65, 90, 97, 122, 201, 233}

\* str.isalpha() on the code points below 256: the ASCII letters and the
\* letters of Latin-1
IsAlpha(c) ==
    \/ c \in 65..90 \/ c \in 97..122
    \/ c \in {170, 181, 186}
    \/ c \in 192..214 \/ c \in 216..246 \/ c \in 248..255

\* str.isupper() on the code points below 256
IsUpper(c) == c \in 65..90 \/ c \in 192..214 \/ c \in 216..222

\* lines 55-60 for one character: base is ord('A') for an upper-case letter
\* and ord('a') for any other letter; % is Python's, never negative
CipherChar(c, shift) ==
    IF IsAlpha(c)
    THEN LET base == IF IsUpper(c) THEN 65 ELSE 97
             shifted == (c - base + shift) % 26
         IN base + shifted
    ELSE c

\* SQSCipherWorker.caesar_cipher (lines 52-62) with self.shift = shift
caesar_cipher(text, shift) ==
    [i \in 1..Len(text) |-> CipherChar(text[i], shift)]

Texts == UNION {[1..n -> Chars] : n \in 0..MaxLen}

\* shifts of either sign, zero, a whole turn and more than a turn
Shifts == (-MaxShift..MaxShift) \cup {-29, 26, 29}

InitCipher ==
    /\ SvcInit /\ WorkerVarsInit /\ ProvVarsInit /\ BatchVarsInit /\ SendVarsInit
    /\ cpc = "input"
    /\ ctext \in Texts
    /\ cshift \in Shifts
    /\ cout = << >>
    /\ cback = << >>

\* a worker constructed with shift = cshift encrypts the text
Encrypt ==
    /\ cpc = "input"
    /\ cout' = caesar_cipher(ctext, cshift)
    /\ cpc' = "encrypted"
    /\ UNCHANGED << ctext, cshift, cback >>
    /\ UNCHANGED << svcVars, workerVars, provVars, batchVars, sendVars >>

\* a worker constructed with shift = -cshift is given the result
Decrypt ==
    /\ cpc = "encrypted"
    /\ cback' = caesar_cipher(cout, -cshift)
    /\ cpc' = "decoded"
    /\ UNCHANGED << ctext, cshift, cout >>
    /\ UNCHANGED << svcVars, workerVars, provVars, batchVars, sendVars >>

NextCipher == Encrypt \/ Decrypt

SpecCipher == InitCipher /\ [][NextCipher]_vars

\* ------------------------------------------------------------ the claims
NoResultOutcomes == {"empty", "recv_error", "delete_failed", "poison_deleted",
                     "poison_kept", "cancel_swallowed"}
PoisonOutcomes == {"poison_deleted", "poison_kept", "cancel_swallowed"}

\* C1: with a cutoff max_messages = M >= 1 the worker never acknowledges more
\* than M messages, every receive call is issued while processed_count < M,
\* once processed_count = M the worker is at the head of the loop or stopped
\* and the only step of the loop there is the one to STOPPED, and the loop is
\* left for the cutoff only with processed_count = M.
BoundedRun ==
    max_messages >= 1 =>
        /\ processed_count <= max_messages
        /\ (receiveCalls > 0 => recvAtCount < max_messages)
        /\ (processed_count = max_messages => pc \in {"idle", "stopped"})
        /\ (stopReason = "limit" => pc = "stopped" /\ processed_count = max_messages)
        /\ (pc = "idle" /\ processed_count = max_messages =>
                /\ ENABLED (LoopHead /\ pc' = "stopped")
                /\ ~ENABLED (LoopHead /\ pc' = "receiving"))

\* a continuous run with cutoff 2 stopped by the cutoff after a receive that
\* acknowledged nothing
BoundedRunWitness ==
    /\ pc = "stopped" /\ stopReason = "limit"
    /\ continuous /\ max_messages > 1
    /\ processed_count = max_messages
    /\ receiveCalls > processed_count

\* C2: processed_count is the number of receipt tokens that were parsed and
\* transformed and whose delete call returned; when a consume_message has
\* ended, processed_count is one more than at its receive call if it ended
\* with a successful delete of a transformed message, and unchanged if it
\* ended with an empty receive, a failed receive, a failed delete or a poison
\* message.
AckCounting ==
    /\ processed_count = Cardinality(okTokens \cap transformed)
    /\ (pc \in {"idle", "stopped"} /\ last.outcome = "ok"
            => processed_count = recvAtCount + 1)
    /\ (pc \in {"idle", "stopped"} /\ last.outcome \in NoResultOutcomes
            => processed_count = recvAtCount)

\* one message acknowledged, a poison message deleted and a transformed
\* message whose delete failed
AckCountingWitness ==
    /\ processed_count = 1
    /\ Cardinality(okTokens) = 2
    /\ \E t \in transformed : t \notin okTokens

\* C3 (as claimed): a failed delete of a processed message never makes the
\* worker leave the loop.
DeleteFailureNotFatal ==
    last.outcome = "delete_failed" => ~(pc = "stopped" /\ stopReason = "noresult")

\* C4: every receipt token is used in at most one delete call, only tokens
\* that a receive returned are used, and the delete in flight always carries
\* the token of the latest receive.
OneDeletePerLease ==
    /\ \A t \in Tokens :
         /\ deleteCalls[t] <= 1
         /\ (deleteCalls[t] = 1 => t <= receiveCalls)
    /\ (pc \in {"acknowledging", "poison_ack"} =>
            cur.token = receiveCalls /\ deleteCalls[cur.token] = 1)
    /\ \A t \in okTokens : deleteCalls[t] = 1

\* two leases, the first transformed and its delete failed, the second poison
\* and its delete failed: one delete call each
OneDeletePerLeaseWitness ==
    /\ deleteCalls[1] = 1 /\ deleteCalls[2] = 1
    /\ 1 \in transformed /\ 1 \notin okTokens
    /\ last.outcome = "poison_kept"

\* C5: a message whose body is not JSON is never transformed, exactly one
\* delete call is issued with its receipt token, the message has left the
\* queue when that delete returned, and processed_count is what it was at the
\* receive call.
PoisonHandling ==
    /\ \A i \in 1..Len(msgs) :
         msgs[i].body = "malformed" => msgs[i].handle \notin transformed
    /\ (pc = "poison_ack" =>
            /\ msgs[cur.id].body = "malformed"
            /\ cur.token \notin transformed
            /\ deleteCalls[cur.token] = 1
            /\ processed_count = recvAtCount)
    /\ (last.outcome \in PoisonOutcomes =>
            /\ msgs[last.id].body = "malformed"
            /\ last.token \notin transformed
            /\ deleteCalls[last.token] = 1
            /\ (pc \in {"idle", "stopped"} => processed_count = recvAtCount))
    /\ (last.outcome = "poison_deleted" => msgs[last.id].st = "deleted")

\* a poison message deleted after another message was acknowledged
PoisonHandlingWitness ==
    /\ last.outcome = "poison_deleted"
    /\ msgs[last.id].st = "deleted"
    /\ processed_count = 1

\* C8: the worker issues no create call; a queue that does not exist stays
\* absent and the worker is never constructed against it; after a failed
\* lookup the worker has no queue url, cannot be started and issues no
\* receive or delete call.
ConsumerNeverCreates ==
    /\ workerCreates = 0
    /\ (~queueExists => pc \in {"new", "init_failed"})
    /\ (pc = "init_failed" =>
            /\ queue_url = NoUrl
            /\ receiveCalls = 0
            /\ \A t \in Tokens : deleteCalls[t] = 0
            /\ ~ENABLED Start
            /\ ~ENABLED LoopHead)
    /\ (receiveCalls > 0 => queue_url = QueueUrl)

\* construction failed against an absent queue
ConsumerNeverCreatesWitness ==
    pc = "init_failed" /\ ~queueExists

\* C6: a producer's resolve issues a create call exactly when its lookup
\* answered that the queue does not exist; a lookup that found the queue ends
\* the resolve with the url and no create call; a lookup that failed with any
\* other error ends the resolve with the error, no url and no create call.
CreateOnlyOnNotFound ==
    /\ \A p \in Producers :
         /\ (ppc[p] = "creating" =>
                pobs[p].lookup = "NonExistentQueue" /\ pobs[p].creates = 0)
         /\ (ppc[p] \in {"ready", "failed"} =>
                (pobs[p].creates = 1 <=> pobs[p].lookup = "NonExistentQueue"))
         /\ pobs[p].creates <= 1
         /\ (pobs[p].lookup = "found" =>
                ppc[p] = "ready" /\ purl[p] = QueueUrl /\ pobs[p].creates = 0)
         /\ (pobs[p].lookup \in {"AccessDenied", "ServiceUnavailable"} =>
                ppc[p] = "failed" /\ purl[p] = NoUrl /\ pobs[p].creates = 0)
    /\ \A i \in 1..Len(resolves) :
         resolves[i].creates = (IF resolves[i].lookup = "NonExistentQueue" THEN 1 ELSE 0)
    /\ createCalls = Cardinality({i \in 1..Len(resolves) : resolves[i].creates = 1})

\* one resolve ended with a permission error and no create, another created
\* the queue after a not-found lookup
CreateOnlyOnNotFoundWitness ==
    \E p, q \in Producers :
        /\ ppc[p] = "failed" /\ pobs[p].lookup = "AccessDenied"
        /\ ppc[q] = "ready" /\ pobs[q].lookup = "NonExistentQueue"
        /\ createCalls = 1

BatchResultComplete ==
    bpc = "done" =>
        /\ batchReturn.Successful \cap batchReturn.Failed = {}
        /\ Cardinality(batchReturn.Successful) + Cardinality(batchReturn.Failed)
               = batchInput

\* entries carried by a sequence of batch requests
RECURSIVE EntriesSubmitted(_)
EntriesSubmitted(reqs) ==
    IF reqs = << >> THEN 0 ELSE Head(reqs) + EntriesSubmitted(Tail(reqs))

\* C10 (as claimed): no request send_batch submits carries more entries than
\* the limit of 10, and the requests together carry every input message.
BatchSizeCap ==
    /\ \A i \in 1..Len(batchRequests) : batchRequests[i] <= ServiceBatchLimit
    /\ (bpc # "idle" => EntriesSubmitted(batchRequests) = batchInput)

\* C11 (as claimed): encrypting with shift k and then with shift -k gives
\* the text back, for every text and every shift.
TransformRoundTrip ==
    cpc = "decoded" => cback = ctext

\* the letter `shift` places after c in the 26-letter alphabet of its case;
\* any other character is c itself
ShiftedLetter(c, shift) ==
    IF c \in 65..90 THEN 65 + ((c - 65 + shift) % 26)
    ELSE IF c \in 97..122 THEN 97 + ((c - 97 + shift) % 26)
    ELSE c

\* C12 (as claimed): the result has the length of the text, every letter is
\* replaced by the letter shift places later in the alphabet of its case
\* (modulo 26), every other character is unchanged; with shift 3 "Hola"
\* gives "Krod", "abc XYZ" gives "def ABC" and "" gives "".
TransformResult ==
    /\ caesar_cipher(<< 72, 111, 108, 97 >>, 3) = << 75, 114, 111, 100 >>
    /\ caesar_cipher(<< 97, 98, 99, 32, 88, 89, 90 >>, 3)
           = << 100, 101, 102, 32, 65, 66, 67 >>
    /\ caesar_cipher(<< >>, 3) = << >>
    /\ (cpc \in {"encrypted", "decoded"} =>
            /\ Len(cout) = Len(ctext)
            /\ \A i \in 1..Len(ctext) :
                 cout[i] = ShiftedLetter(ctext[i], cshift))

\* C13 (as claimed): once the cancellation signal has arrived inside the
\* loop, whatever the worker was doing, the worker is STOPPED and issues no
\* further receive.
CancelAlwaysStops ==
    last.outcome \in {"cancelled", "cancel_swallowed"} => pc = "stopped"

\* C14 (as claimed): the loop is left only because the cutoff is reached,
\* because of cancellation, or because a receive returned no message in
\* single-run mode.
StoppedOnlyForStatedReasons ==
    pc = "stopped" =>
        \/ stopReason = "limit" /\ processed_count >= max_messages
        \/ stopReason = "cancel"
        \/ stopReason = "noresult" /\ ~continuous /\ last.outcome = "empty"

\* C16: outside the handling of one message the worker holds no receipt
\* token; while it handles one, the token is that of the latest receive call
\* and belongs to the message in hand; no receive call leased more than one
\* message.
OneLeaseAtATime ==
    /\ (pc \in {"new", "ready", "init_failed", "idle", "receiving", "stopped"}
            => cur = NoCur)
    /\ (pc \in {"processing", "acknowledging", "poison_ack"} =>
            /\ cur.token = receiveCalls
            /\ cur.id \in 1..Len(msgs)
            /\ msgs[cur.id].handle = cur.token)
    /\ \A t \in Tokens :
         Cardinality({i \in 1..Len(msgs) : msgs[i].handle = t}) <= 1

\* a second message in hand while the first, whose delete failed, is still
\* leased under the earlier token
OneLeaseAtATimeWitness ==
    /\ pc = "processing"
    /\ receiveCalls >= 2
    /\ \E i \in Leased :
         i # cur.id /\ msgs[i].handle \in 1..(receiveCalls - 1)

\* C17: a delete is in flight only for a message that was transformed or
\* whose body is not JSON; a message that has left the queue was transformed
\* or is poison, every other message is visible or leased; a message whose
\* delete failed, or whose worker was cancelled before the delete, is still
\* on the queue, and a leased message can become visible again.
NoLossBeforeHandled ==
    /\ (pc = "acknowledging" => cur.token \in transformed)
    /\ (pc = "poison_ack" => msgs[cur.id].body = "malformed")
    /\ \A i \in 1..Len(msgs) :
         IF msgs[i].st = "deleted"
         THEN \/ msgs[i].body = "envelope" /\ msgs[i].handle \in transformed
              \/ msgs[i].body = "malformed" /\ deleteCalls[msgs[i].handle] = 1
         ELSE msgs[i].st \in {"visible", "leased"}
    /\ (last.outcome = "delete_failed" => msgs[last.id].st # "deleted")
    /\ (last.outcome = "cancelled" /\ last.id # 0 /\ deleteCalls[last.token] = 0
            => msgs[last.id].st # "deleted")
    /\ (Leased # {} => ENABLED LeaseExpire)

\* a transformed message whose delete failed is visible again
NoLossBeforeHandledWitness ==
    /\ last.outcome = "delete_failed"
    /\ msgs[last.id].st = "visible"
    /\ msgs[last.id].handle \in transformed

\* C18 (as claimed, in the form a finite run decides): a worker started in
\* continuous mode without cutoff and not cancelled is the only client that
\* deletes, so for every message to be deleted eventually it must not have
\* left its loop while a message is still on the queue.
EventualConsumption ==
    (continuous /\ max_messages = NoLimit /\ pc = "stopped" /\ stopReason # "cancel")
        => \A i \in 1..Len(msgs) : msgs[i].st = "deleted"

\* C19 (as claimed): started with max_messages = 0 the worker issues no
\* receive call.
CutoffZeroStops ==
    max_messages = 0 => receiveCalls = 0

\* the calls among the first n of the log that returned True
Accepted(n) == {i \in 1..n : sendLog[i].ret}

\* C15: the bodies stored by the service are exactly those of the calls that
\* returned True, one each and in order, each an envelope with status pending
\* whose message is the argument of the call; a call that returned False
\* stored nothing; a producer that has sent, with success or not, is still
\* constructed and can send again.
SendOutcome ==
    /\ Len(payloads) = Cardinality(Accepted(Len(sendLog)))
    /\ Len(msgs) = Len(payloads)
    /\ \A i \in 1..Len(sendLog) :
         sendLog[i].ret =>
            LET body == payloads[Cardinality(Accepted(i))] IN
            /\ body.message = sendLog[i].message
            /\ body.status = "pending"
            /\ body.timestamp = i
    /\ \A i \in 1..Len(sendLog) :
         LET p == sendLog[i].p IN
         /\ ppc[p] = "ready" /\ purl[p] = QueueUrl
         /\ (Len(sendLog) < MaxSends /\ Len(msgs) < MaxMsgs
                => ENABLED send_message(p))

\* a send that failed, then a send of "Hola" by the same producer that the
\* service accepted
SendOutcomeWitness ==
    /\ Len(sendLog) >= 2
    /\ ~sendLog[1].ret /\ sendLog[2].ret
    /\ sendLog[1].p = sendLog[2].p
    /\ sendLog[2].message = "Hola"
    /\ Len(payloads) = 1 /\ payloads[1].message = "Hola"

\* C20 (as claimed): when two producers have initialised against the same
\* name, in any interleaving and with no call failing, at most one create
\* call was issued and both hold the same address.
ConcurrentProvisioning ==
    (Len(resolves) = 2 /\ \A p \in Producers : ppc[p] = "ready") =>
        /\ createCalls <= 1
        /\ \A p, q \in Producers : purl[p] = purl[q]

====
